---- MODULE Spec2Model ----
(***************************************************************************)
(* A model of app.py: the value parsers and text formatters, the DOCX      *)
(* placeholder substitution engine, the /proposta and /recentes handlers   *)
(* and the propostas table.                                                *)
(*                                                                         *)
(* Text is a string, read as the sequence of its characters (Len, SubSeq   *)
(* and \o), so that searching, slicing and concatenation are computed as   *)
(* Python computes them.  A paragraph is the sequence of its runs' texts.  *)
(***************************************************************************)
EXTENDS Integers, Sequences, FiniteSets, TLC

VARIABLES
    \* ---- the document being rendered (python-docx Document)
    template,       \* the paragraphs as loaded, before any substitution
    doc,            \* the paragraphs, each the sequence of its runs' texts
    images,         \* per paragraph, the pictures added by run.add_picture
    context,        \* replace_text_in_doc's context: sequence of [k, v]
    replacements,   \* _replace_in_paragraph's mapping: sequence of [ph, value]
    caller,         \* who called _replace_in_paragraph
    pIdx,           \* the paragraph being processed
    kIdx,           \* the item of replacements.items() being processed
    pc,             \* control point of the substitution engine
    loc,            \* locals of the last iteration of the while loop
    last_subst,     \* history: kIdx of the last substitution in this call
    \* ---- one HTTP request to /proposta
    form,           \* request.form and request.files
    rpc,            \* control point of proposta()
    pdf_bytes,      \* the result of docx_to_pdf_bytes, or Nil
    response,       \* what the handler returned
    \* ---- the propostas table and the /recentes handlers
    propostas,      \* the rows: [id, created_at]
    nextId,         \* the SERIAL sequence
    now,            \* the database clock, in days
    sweep,          \* per /recentes request: the DELETE statement's progress
    \* ---- a call of a pure helper
    fn,             \* which helper
    arg,            \* its argument
    ret             \* what it returned, by stage

docVars   == <<template, doc, images, context, replacements, caller, pIdx, kIdx, pc, loc, last_subst>>
reqVars   == <<form, rpc, pdf_bytes, response>>
storeVars == <<propostas, nextId, now, sweep>>
fnVars    == <<fn, arg, ret>>
vars      == <<docVars, reqVars, storeVars, fnVars>>

Nil == "None"

\* start_run = None, end_run = None (the runs are numbered from 1)
NoRun == 0

(***************************************************************************)
(* Python's str and list operations                                        *)
(***************************************************************************)
Min(a, b) == IF a < b THEN a ELSE b
Max(a, b) == IF a > b THEN a ELSE b

\* s[:n] with Python's clamping
Take(s, n) == SubSeq(s, 1, Min(Max(n, 0), Len(s)))

\* s[n:] with Python's clamping
Drop(s, n) == SubSeq(s, Min(Max(n, 0), Len(s)) + 1, Len(s))

\* whether sub occurs in s at the 0-based offset i
IsAt(s, sub, i) ==
    /\ i >= 0
    /\ i + Len(sub) <= Len(s)
    /\ SubSeq(s, i + 1, i + Len(sub)) = sub

\* s.find(sub): the lowest 0-based offset, or -1
Find(s, sub) ==
    IF \E i \in 0..Len(s) : IsAt(s, sub, i)
    THEN CHOOSE i \in 0..Len(s) : IsAt(s, sub, i) /\ \A j \in 0..(i - 1) : ~IsAt(s, sub, j)
    ELSE -1

\* sub in s
Contains(s, sub) == \E i \in 0..Len(s) : IsAt(s, sub, i)

RECURSIVE Join(_)
\* "".join(texts)
Join(texts) == IF texts = <<>> THEN "" ELSE Head(texts) \o Join(Tail(texts))

\* "".join(r.text for r in paragraph.runs)
FullText(runs) == Join(runs)

(***************************************************************************)
(* _replace_in_paragraph: one iteration of the while loop                  *)
(***************************************************************************)
RECURSIVE RunStartsFrom(_, _)
RunStartsFrom(runs, pos) ==
    IF runs = <<>> THEN <<>>
    ELSE <<pos>> \o RunStartsFrom(Tail(runs), pos + Len(Head(runs)))

\* run_starts: the 0-based offset of each run in full_text
RunStarts(runs) == RunStartsFrom(runs, 0)

\* run_end of run i (1-based i)
RunEnd(runs, i) == RunStarts(runs)[i] + Len(runs[i])

\* the run where the occurrence starts: the first with start < run_end, or None
StartRun(runs, start) ==
    IF \E i \in 1..Len(runs) : start < RunEnd(runs, i)
    THEN CHOOSE i \in 1..Len(runs) :
            /\ start < RunEnd(runs, i)
            /\ \A j \in 1..(i - 1) : ~(start < RunEnd(runs, j))
    ELSE NoRun

\* the run where the occurrence ends: the first, from start_run on, with
\* end <= run_end; the last run when the scan finds none
EndRun(runs, sr, end) ==
    IF \E i \in sr..Len(runs) : end <= RunEnd(runs, i)
    THEN CHOOSE i \in sr..Len(runs) :
            /\ end <= RunEnd(runs, i)
            /\ \A j \in sr..(i - 1) : ~(end <= RunEnd(runs, j))
    ELSE Len(runs)

\* the locals of one iteration that found the placeholder
Locate(runs, placeholder) ==
    LET full_text == FullText(runs)
        start     == Find(full_text, placeholder)
        end       == start + Len(placeholder)
        sr        == StartRun(runs, start)
    IN  IF sr = NoRun
        THEN [full_text |-> full_text, start |-> start, end |-> end,
              start_run |-> NoRun, end_run |-> NoRun, prefix |-> "", suffix |-> ""]
        ELSE LET er == EndRun(runs, sr, end)
             IN [full_text |-> full_text, start |-> start, end |-> end,
                 start_run |-> sr, end_run |-> er,
                 prefix |-> Take(runs[sr], Max(0, start - RunStarts(runs)[sr])),
                 suffix |-> Drop(runs[er], Max(0, end - RunStarts(runs)[er]))]

\* a variant of the code's write: range(start_run + 1, end_run) leaves end_run alone
WriteRunsKeepEndRun(runs, l, value) ==
    [j \in 1..Len(runs) |->
        IF j = l.start_run THEN l.prefix \o value \o l.suffix
        ELSE IF j > l.start_run /\ j < l.end_run THEN ""
        ELSE runs[j]]

\* a variant of the code's write: the suffix is dropped
WriteRunsDropSuffix(runs, l, value) ==
    [j \in 1..Len(runs) |->
        IF j = l.start_run THEN l.prefix \o value
        ELSE IF j > l.start_run /\ j <= l.end_run THEN ""
        ELSE runs[j]]

\* runs[start_run].text = prefix + value + suffix; runs start_run+1..end_run = ""
WriteRuns(runs, l, value) ==
    [j \in 1..Len(runs) |->
        IF j = l.start_run THEN l.prefix \o value \o l.suffix
        ELSE IF j > l.start_run /\ j <= l.end_run THEN ""
        ELSE runs[j]]

(***************************************************************************)
(* The variables a specification does not use keep these values            *)
(***************************************************************************)
NoLoc == [full_text |-> "", start |-> -1, end |-> -1,
          start_run |-> NoRun, end_run |-> NoRun, prefix |-> "", suffix |-> ""]

DocIdle ==
    /\ template = <<>> /\ doc = <<>> /\ images = <<>> /\ context = <<>>
    /\ replacements = <<>> /\ caller = Nil /\ pIdx = 0 /\ kIdx = 0
    /\ pc = "idle" /\ loc = NoLoc /\ last_subst = 0

ReqIdle == form = Nil /\ rpc = "idle" /\ pdf_bytes = Nil /\ response = Nil

StoreIdle == propostas = {} /\ nextId = 1 /\ now = 0 /\ sweep = <<>>

FnIdle == fn = Nil /\ arg = Nil /\ ret = Nil

(***************************************************************************)
(* _replace_in_paragraph(paragraph, replacements)                          *)
(*   pc = "call"     the call is made, nothing has run                     *)
(*   pc = "while"    at the head of the while loop of item kIdx, first pass*)
(*   pc = "written"  at the end of the loop body: the runs were rewritten  *)
(***************************************************************************)
\* what the caller does when _replace_in_paragraph returns
Return ==
    CASE caller = "replace_text_in_doc" ->
            \* for p in _iter_all_paragraphs(doc): the next paragraph, or the
            \* statement after replace_text_in_doc in proposta()
            /\ IF pIdx < Len(doc)
               THEN pIdx' = pIdx + 1 /\ pc' = "call"
               ELSE pIdx' = pIdx /\ pc' = "replace_image_placeholder"
            /\ UNCHANGED <<doc, images>>
      [] caller = "replace_image_placeholder" ->
            \* run = p.add_run(); run.add_picture(...); return
            /\ doc' = [doc EXCEPT ![pIdx] = Append(@, "")]
            /\ images' = [images EXCEPT ![pIdx] = @ + 1]
            /\ pIdx' = pIdx
            /\ pc' = "done"
      [] OTHER ->
            /\ pc' = "returned"
            /\ UNCHANGED <<doc, images, pIdx>>

\* if not paragraph.runs: return; else the for loop starts (or, over an empty
\* mapping, ends at once)
Enter ==
    /\ pc = "call"
    /\ last_subst' = 0
    /\ loc' = NoLoc
    /\ IF doc[pIdx] = <<>> \/ replacements = <<>>
       THEN kIdx' = 0 /\ Return
       ELSE kIdx' = 1 /\ pc' = "while" /\ UNCHANGED <<doc, images, pIdx>>
    /\ UNCHANGED <<template, context, replacements, caller>>
    /\ UNCHANGED <<reqVars, storeVars, fnVars>>

\* a variant of the loop condition: if instead of while, one substitution per key
LoopAgainOnlyBeforeFirstWrite(runs, placeholder) ==
    pc = "while" /\ Contains(FullText(runs), placeholder)

\* the while loop goes round again: placeholder in full_text
LoopAgain(runs, placeholder) == Contains(FullText(runs), placeholder)

\* one pass of the loop body that finds the placeholder and rewrites the runs
Substitute ==
    /\ pc \in {"while", "written"}
    /\ LoopAgain(doc[pIdx], replacements[kIdx].ph)
    /\ LET l == Locate(doc[pIdx], replacements[kIdx].ph)
       IN  /\ loc' = l
           /\ IF l.start_run = NoRun
              THEN \* if start_run is None: break
                   /\ last_subst' = last_subst
                   /\ IF kIdx < Len(replacements)
                      THEN kIdx' = kIdx + 1 /\ pc' = "while" /\ UNCHANGED <<doc, images, pIdx>>
                      ELSE kIdx' = kIdx /\ Return
              ELSE /\ doc' = [doc EXCEPT ![pIdx] = WriteRuns(@, l, replacements[kIdx].value)]
                   /\ last_subst' = kIdx
                   /\ pc' = "written"
                   /\ UNCHANGED <<images, pIdx, kIdx>>
    /\ UNCHANGED <<template, context, replacements, caller>>
    /\ UNCHANGED <<reqVars, storeVars, fnVars>>

\* if placeholder not in full_text: break; the for loop takes the next item, or
\* the function returns
Break ==
    /\ pc \in {"while", "written"}
    /\ ~LoopAgain(doc[pIdx], replacements[kIdx].ph)
    /\ IF kIdx < Len(replacements)
       THEN kIdx' = kIdx + 1 /\ pc' = "while" /\ UNCHANGED <<doc, images, pIdx>>
       ELSE kIdx' = kIdx /\ Return
    /\ UNCHANGED <<template, context, replacements, caller, loc, last_subst>>
    /\ UNCHANGED <<reqVars, storeVars, fnVars>>

(***************************************************************************)
(* SpecParagraph: a direct call of _replace_in_paragraph on one paragraph  *)
(***************************************************************************)
MaxRuns == 3

\* the texts a run of the paragraph may hold
RunTexts == {"", "Hello {{", "NAME", "}}!", "{{NAME}}", "{{{{B}}NAME}}"}

\* the paragraphs: up to MaxRuns runs (none: a paragraph without runs)
Paragraphs == UNION {[1..n -> RunTexts] : n \in 0..MaxRuns}

\* the values a placeholder may be mapped to
Values == {"", "Ana", "{{NAME}}"}

\* the mappings: no item, one item, or the two keys in either order
Mappings ==
    {<<>>}
    \cup {<<[ph |-> k, value |-> v]>> : k \in {"{{NAME}}", "{{B}}"}, v \in Values}
    \cup {<<[ph |-> "{{NAME}}", value |-> v], [ph |-> "{{B}}", value |-> w]>> : v \in Values, w \in Values}
    \cup {<<[ph |-> "{{B}}", value |-> w], [ph |-> "{{NAME}}", value |-> v]>> : v \in Values, w \in Values}

InitParagraph ==
    /\ \E p \in Paragraphs : template = <<p>> /\ doc = <<p>>
    /\ images = <<0>>
    /\ context = <<>>
    /\ replacements \in Mappings
    /\ caller = "direct"
    /\ pIdx = 1 /\ kIdx = 0
    /\ pc = "call"
    /\ loc = NoLoc
    /\ last_subst = 0
    /\ ReqIdle /\ StoreIdle /\ FnIdle

NextParagraph == Enter \/ Substitute \/ Break

SpecParagraph == InitParagraph /\ [][NextParagraph]_vars

(***************************************************************************)
(* Claims about _replace_in_paragraph (SpecParagraph)                      *)
(***************************************************************************)
\* the offsets at which sub occurs in s
Occurrences(s, sub) == {i \in 0..Len(s) : IsAt(s, sub, i)}

\* the paragraph and the value of the substitution just made
CurRuns  == doc[pIdx]
CurValue == replacements[kIdx].value

\* the text of the paragraph after the substitution, from the text before it
TextEffect ==
    FullText(CurRuns) = Take(loc.full_text, loc.start) \o CurValue \o Drop(loc.full_text, loc.end)

C2_NoKeyRemains ==
    pc = "returned" =>
        \A i \in 1..Len(replacements) : ~Contains(FullText(CurRuns), replacements[i].ph)

\* C2 as amended: once _replace_in_paragraph has returned, the paragraph's text
\* contains no occurrence of the key substituted last nor of any key after it in
\* the mapping (of no key at all when nothing was substituted): a key is replaced
\* until none of its occurrences remain; an earlier key may occur in the result
\* only where a later substitution produced it.
C2_NoKeyRemainsFromLastSubstitution ==
    pc = "returned" =>
        \A i \in 1..Len(replacements) :
            i >= last_subst => ~Contains(FullText(CurRuns), replacements[i].ph)

\* C2's case: a key that occurs several times in the paragraph is gone
C2_Witness ==
    /\ pc = "returned"
    /\ Cardinality(Occurrences(FullText(template[pIdx]), "{{NAME}}")) >= 2
    /\ last_subst > 0
    /\ replacements[last_subst] = [ph |-> "{{NAME}}", value |-> "Ana"]
    /\ ~Contains(FullText(CurRuns), "{{NAME}}")

(***************************************************************************)
(* replace_text_in_doc and replace_image_placeholder                       *)
(***************************************************************************)
\* the four spellings of a key, in the order the code lists them
PlaceholderVariants(key) ==
    <<"{{ " \o key \o " }}", "{{" \o key \o "}}", "{{ " \o key \o "}}", "{{" \o key \o " }}">>

RECURSIVE BuildReplacements(_)
\* replacements: for each (k, v) of context.items(), None read as "", the four
\* spellings of k mapped to v (the keys of a context are distinct names)
BuildReplacements(ctx) ==
    IF ctx = <<>> THEN <<>>
    ELSE LET v  == IF Head(ctx).v = Nil THEN "" ELSE Head(ctx).v
             ph == PlaceholderVariants(Head(ctx).k)
         IN  [i \in 1..4 |-> [ph |-> ph[i], value |-> v]] \o BuildReplacements(Tail(ctx))

\* replace_text_in_doc(doc, context), up to its first call of _replace_in_paragraph
ReplaceTextInDoc ==
    /\ pc = "replace_text_in_doc"
    /\ replacements' = BuildReplacements(context)
    /\ caller' = "replace_text_in_doc"
    /\ IF doc = <<>>
       THEN pIdx' = 0 /\ pc' = "replace_image_placeholder"
       ELSE pIdx' = 1 /\ pc' = "call"
    /\ UNCHANGED <<template, doc, images, context, kIdx, loc, last_subst>>
    /\ UNCHANGED <<reqVars, storeVars, fnVars>>

\* whether some spelling of key is in the paragraph's text
HasVariant(runs, key) ==
    \E i \in 1..4 : Contains(FullText(runs), PlaceholderVariants(key)[i])

\* a variant of the scan: the last paragraph that holds the placeholder
ImageParagraphLast(d, key) ==
    IF \E p \in 1..Len(d) : HasVariant(d[p], key)
    THEN CHOOSE p \in 1..Len(d) :
            HasVariant(d[p], key) /\ \A q \in (p + 1)..Len(d) : ~HasVariant(d[q], key)
    ELSE 0

\* for p in _iter_all_paragraphs(doc): the first paragraph with found, or 0
ImageParagraph(d, key) ==
    IF \E p \in 1..Len(d) : HasVariant(d[p], key)
    THEN CHOOSE p \in 1..Len(d) :
            HasVariant(d[p], key) /\ \A q \in 1..(p - 1) : ~HasVariant(d[q], key)
    ELSE 0

\* found: the first spelling, in the order of placeholder_variants, in the text
FoundVariant(runs, key) ==
    LET ph == PlaceholderVariants(key)
        i  == CHOOSE i \in 1..4 :
                /\ Contains(FullText(runs), ph[i])
                /\ \A j \in 1..(i - 1) : ~Contains(FullText(runs), ph[j])
    IN  ph[i]

\* replace_image_placeholder(doc, "IMAGEM", img_path), up to its call of
\* _replace_in_paragraph(p, {found: ""})
ReplaceImagePlaceholder ==
    /\ pc = "replace_image_placeholder"
    /\ LET p == ImageParagraph(doc, "IMAGEM")
       IN  IF p = 0
           THEN /\ pc' = "done"
                /\ UNCHANGED <<replacements, caller, pIdx>>
           ELSE /\ replacements' = <<[ph |-> FoundVariant(doc[p], "IMAGEM"), value |-> ""]>>
                /\ caller' = "replace_image_placeholder"
                /\ pIdx' = p
                /\ pc' = "call"
    /\ UNCHANGED <<template, doc, images, context, kIdx, loc, last_subst>>
    /\ UNCHANGED <<reqVars, storeVars, fnVars>>

(***************************************************************************)
(* SpecDoc: replace_text_in_doc then replace_image_placeholder, as         *)
(* proposta() calls them.  SpecImage: replace_image_placeholder alone.     *)
(***************************************************************************)
MaxParas == 2

\* the paragraphs of a template; X is a name no context holds
DocParagraphs ==
    { <<>>,
      <<"{{CLIENTE}} {{X}}">>,
      <<"{{X}}{{", "CLIENTE", "}}{{X}}">>,
      <<"{{ X }}{{ MODELO }}", "{{ CLIENTE}}{{X}", "}">>,
      <<"{{IMAGEM}}">>,
      <<"{{IMAGEM}} {{", "IMAGEM}} {{ IMAGEM}}">>,
      <<"{{IMA{{IMAGEM }}GEM }}", "{{MODELO }}">> }

Docs == UNION {[1..n -> DocParagraphs] : n \in 1..MaxParas}

\* the values of a context; None is read as ""
DocValues == {Nil, "Ana", "{{MODELO}}", "{{CLIENTE}}"}

Contexts == {<<[k |-> "CLIENTE", v |-> v1], [k |-> "MODELO", v |-> v2]>> : v1 \in DocValues, v2 \in DocValues}

InitDoc ==
    /\ \E d \in Docs : template = d /\ doc = d /\ images = [p \in 1..Len(d) |-> 0]
    /\ context \in Contexts
    /\ replacements = <<>>
    /\ caller = Nil
    /\ pIdx = 0 /\ kIdx = 0
    /\ pc = "replace_text_in_doc"
    /\ loc = NoLoc
    /\ last_subst = 0
    /\ ReqIdle /\ StoreIdle /\ FnIdle

NextDoc == ReplaceTextInDoc \/ Enter \/ Substitute \/ Break \/ ReplaceImagePlaceholder

SpecDoc == InitDoc /\ [][NextDoc]_vars

InitImage ==
    /\ \E d \in Docs : template = d /\ doc = d /\ images = [p \in 1..Len(d) |-> 0]
    /\ context = <<>>
    /\ replacements = <<>>
    /\ caller = Nil
    /\ pIdx = 0 /\ kIdx = 0
    /\ pc = "replace_image_placeholder"
    /\ loc = NoLoc
    /\ last_subst = 0
    /\ ReqIdle /\ StoreIdle /\ FnIdle

NextImage == ReplaceImagePlaceholder \/ Enter \/ Substitute \/ Break

SpecImage == InitImage /\ [][NextImage]_vars

(***************************************************************************)
(* Claims about replace_text_in_doc (SpecDoc) and                          *)
(* replace_image_placeholder (SpecImage)                                   *)
(***************************************************************************)
\* how often sub occurs in the paragraph's text
Count(runs, sub) == Cardinality(Occurrences(FullText(runs), sub))

\* the delimited tokens of the templates whose name is no key of the context
UnmappedTokens == {"{{X}}", "{{ X }}", "{{IMAGEM}}", "{{ IMAGEM}}", "{{IMAGEM }}"}

\* C3: while replace_text_in_doc runs and when it has returned, every token
\* {{X}} whose name is no key of the context is still in its paragraph's text,
\* as often as in the template: no substitution removes or alters one.
C3_UnmappedTokensUntouched ==
    caller = "replace_text_in_doc" =>
        \A p \in 1..Len(doc) : \A tok \in UnmappedTokens :
            Count(doc[p], tok) >= Count(template[p], tok)

\* C3's case: replace_text_in_doc has returned, having substituted a key that
\* was split across runs with an unmapped token on either side
C3_Witness ==
    /\ pc = "replace_image_placeholder"
    /\ \E p \in 1..Len(doc) :
          /\ template[p] = <<"{{X}}{{", "CLIENTE", "}}{{X}}">>
          /\ FullText(doc[p]) = "{{X}}Ana{{X}}"

\* all occurrences of the image placeholder, in any spelling, in the document
ImageTokens(d) ==
    LET ph == PlaceholderVariants("IMAGEM")
        RECURSIVE Sum(_)
        Sum(p) == IF p = 0 THEN 0
                  ELSE Count(d[p], ph[1]) + Count(d[p], ph[2]) + Count(d[p], ph[3])
                       + Count(d[p], ph[4]) + Sum(p - 1)
    IN  Sum(Len(d))

RECURSIVE TotalImages(_)
TotalImages(im) == IF im = <<>> THEN 0 ELSE Head(im) + TotalImages(Tail(im))

\* C4 as stated: exactly one occurrence of the token is cleared and exactly one
\* image is inserted; every other occurrence is left in place.
C4_ExactlyOneOccurrenceCleared ==
    (pc = "done" /\ ImageTokens(template) >= 1) =>
        /\ TotalImages(images) = 1
        /\ ImageTokens(doc) = ImageTokens(template) - 1

\* C4 as amended: only the first paragraph that holds some spelling of the token
\* is touched; there every occurrence of the first spelling it holds (in the
\* order "{{ K }}", "{{K}}", "{{ K}}", "{{K }}") is cleared, one picture run is
\* appended to that paragraph and none elsewhere; the other paragraphs, and the
\* other spellings in that paragraph, are left in place.  Without any
\* occurrence the document is unchanged and no picture is inserted.
C4_FirstParagraphCleared ==
    pc = "done" =>
        IF \A p \in 1..Len(template) : ~HasVariant(template[p], "IMAGEM")
        THEN doc = template /\ TotalImages(images) = 0
        ELSE LET ph == PlaceholderVariants("IMAGEM")
                 p  == CHOOSE p \in 1..Len(template) :
                          /\ HasVariant(template[p], "IMAGEM")
                          /\ \A q \in 1..(p - 1) : ~HasVariant(template[q], "IMAGEM")
                 f  == CHOOSE i \in 1..4 :
                          /\ Count(template[p], ph[i]) > 0
                          /\ \A j \in 1..(i - 1) : Count(template[p], ph[j]) = 0
             IN  /\ Count(doc[p], ph[f]) = 0
                 /\ \A i \in 1..4 : i # f => Count(doc[p], ph[i]) >= Count(template[p], ph[i])
                 /\ images[p] = 1 /\ TotalImages(images) = 1
                 /\ Len(doc[p]) = Len(template[p]) + 1 /\ doc[p][Len(doc[p])] = ""
                 /\ \A q \in 1..Len(doc) : q # p => doc[q] = template[q]

\* C4's case: the first paragraph with the token holds one spelling twice and
\* another spelling once, and a later paragraph holds the token too
C4_Witness ==
    /\ pc = "done"
    /\ Len(template) = 2
    /\ template[1] = <<"{{IMAGEM}} {{", "IMAGEM}} {{ IMAGEM}}">>
    /\ template[2] = <<"{{IMAGEM}}">>
    /\ FullText(doc[1]) = "  {{ IMAGEM}}"
    /\ doc[2] = template[2]
    /\ images = <<1, 0>>

(***************************************************************************)
(* Helpers: formatação e parsing                                           *)
(***************************************************************************)
\* c is one character
IsDigit(c) == Len(c) = 1 /\ Contains("0123456789", c)

DigitVal(c) == Find("0123456789", c)

RECURSIVE OnlyDigits(_)
\* re.sub(r"\D", "", s)
OnlyDigits(s) ==
    IF s = "" THEN ""
    ELSE (IF IsDigit(Take(s, 1)) THEN Take(s, 1) ELSE "") \o OnlyDigits(Drop(s, 1))

RECURSIVE ToInt(_)
\* int(s) of a string of digits
ToInt(s) ==
    IF s = "" THEN 0
    ELSE ToInt(Take(s, Len(s) - 1)) * 10 + DigitVal(Drop(s, Len(s) - 1))

RECURSIVE ToStr(_)
\* str(n) of n >= 0
ToStr(n) ==
    IF n < 10 THEN SubSeq("0123456789", n + 1, n + 1)
    ELSE ToStr(n \div 10) \o SubSeq("0123456789", (n % 10) + 1, (n % 10) + 1)

RECURSIVE Replace(_, _, _)
\* s.replace(old, new), old not empty: left to right, without overlap
Replace(s, old, new) ==
    IF Len(s) < Len(old) THEN s
    ELSE IF Take(s, Len(old)) = old THEN new \o Replace(Drop(s, Len(old)), old, new)
    ELSE Take(s, 1) \o Replace(Drop(s, 1), old, new)

RECURSIVE Strip(_)
\* s.strip()
Strip(s) ==
    IF s = "" THEN ""
    ELSE IF Take(s, 1) = " " THEN Strip(Drop(s, 1))
    ELSE IF Drop(s, Len(s) - 1) = " " THEN Strip(Take(s, Len(s) - 1))
    ELSE s

\* whether every character is a digit, and there is one: \d+
AllDigits(s) == s # "" /\ OnlyDigits(s) = s

(***************************************************************************)
(* parse_data_digitos                                                      *)
(***************************************************************************)
NoDate == [year |-> 0, month |-> 0, day |-> 0]

IsLeap(y) == y % 4 = 0 /\ (y % 100 # 0 \/ y % 400 = 0)

DaysInMonth(y, m) ==
    IF m = 2 THEN (IF IsLeap(y) THEN 29 ELSE 28)
    ELSE IF m \in {4, 6, 9, 11} THEN 30 ELSE 31

\* datetime.date(yyyy, mm, dd): the date, or ValueError with the message of the
\* check that fails (year, then month, then day)
MakeDate(yyyy, mm, dd) ==
    IF yyyy < 1 \/ yyyy > 9999
    THEN [ok |-> FALSE, date |-> NoDate, error |-> "ValueError", message |-> "year " \o ToStr(yyyy) \o " is out of range"]
    ELSE IF mm < 1 \/ mm > 12
    THEN [ok |-> FALSE, date |-> NoDate, error |-> "ValueError", message |-> "month must be in 1..12"]
    ELSE IF dd < 1 \/ dd > DaysInMonth(yyyy, mm)
    THEN [ok |-> FALSE, date |-> NoDate, error |-> "ValueError", message |-> "day is out of range for month"]
    ELSE [ok |-> TRUE, date |-> [year |-> yyyy, month |-> mm, day |-> dd], error |-> "", message |-> ""]

\* yyyy = 2000 + yy
CenturyOf(yy) == 2000 + yy

parse_data_digitos(s) ==
    LET digits == OnlyDigits(s)
    IN  IF Len(digits) = 8
        THEN MakeDate(ToInt(SubSeq(digits, 5, 8)), ToInt(SubSeq(digits, 3, 4)), ToInt(SubSeq(digits, 1, 2)))
        ELSE IF Len(digits) = 6
        THEN MakeDate(CenturyOf(ToInt(SubSeq(digits, 5, 6))), ToInt(SubSeq(digits, 3, 4)), ToInt(SubSeq(digits, 1, 2)))
        ELSE [ok |-> FALSE, date |-> NoDate, error |-> "ValueError", message |-> "Data inválida (use DDMMAAAA)"]

\* the day, month and year fields a form may carry, and the separators
DayFields   == {"00", "01", "20", "28", "29", "30", "31", "32"}
MonthFields == {"00", "01", "02", "04", "12", "13"}
YearFields  == {"2020", "2023", "2024", "2026", "1900", "2000", "0000", "26", "00", "202", "20260", ""}

DateInputs ==
    {d \o sep \o m \o sep \o y : d \in DayFields, m \in MonthFields, y \in YearFields, sep \in {"", "/", " de "}}

InitData ==
    /\ fn = "parse_data_digitos"
    /\ arg \in DateInputs
    /\ ret = [stage |-> "called"]
    /\ DocIdle /\ ReqIdle /\ StoreIdle

CallParseData ==
    /\ fn = "parse_data_digitos"
    /\ ret.stage = "called"
    /\ ret' = [stage |-> "returned", r |-> parse_data_digitos(arg)]
    /\ UNCHANGED <<fn, arg, docVars, reqVars, storeVars>>

NextData == CallParseData

SpecData == InitData /\ [][NextData]_vars

\* a real calendar date: month 1..12, day 1..(28|29|30|31) by month and leap year
RealDate(y, m, d) ==
    /\ y \in 1..9999
    /\ m \in 1..12
    /\ d >= 1
    /\ (m \in {1, 3, 5, 7, 8, 10, 12} => d <= 31)
    /\ (m \in {4, 6, 9, 11} => d <= 30)
    /\ (m = 2 => d <= 28 \/ (d = 29 /\ (y % 400 = 0 \/ (y % 4 = 0 /\ y % 100 # 0))))

\* what the digits of the argument stand for
ArgDigits == OnlyDigits(arg)
ArgDay    == ToInt(SubSeq(ArgDigits, 1, 2))
ArgMonth  == ToInt(SubSeq(ArgDigits, 3, 4))
ArgYear   == IF Len(ArgDigits) = 8 THEN ToInt(SubSeq(ArgDigits, 5, 8)) ELSE 2000 + ToInt(SubSeq(ArgDigits, 5, 6))
ArgIsDate == Len(ArgDigits) \in {6, 8} /\ RealDate(ArgYear, ArgMonth, ArgDay)

\* C8: 8 or 6 digits that form a real date are accepted and give that
\* date; anything else fails with an invalid-input error whose message names the
\* expected formats.
C8_ErrorsNameTheFormats ==
    ret.stage = "returned" =>
        IF ArgIsDate
        THEN ret.r.ok /\ ret.r.date = [year |-> ArgYear, month |-> ArgMonth, day |-> ArgDay]
        ELSE ~ret.r.ok /\ ret.r.error = "ValueError" /\ ret.r.message = "Data inválida (use DDMMAAAA)"

\* What the code does, beside C8: the date is accepted as C8 says and anything
\* else fails with ValueError and returns no date, but the message names the
\* expected format only when the number of digits is neither 8 nor 6; days,
\* months and years that form no date fail with the date constructor's message.
DataErrorMessages ==
    ret.stage = "returned" =>
        IF ArgIsDate
        THEN ret.r.ok /\ ret.r.date = [year |-> ArgYear, month |-> ArgMonth, day |-> ArgDay]
        ELSE /\ ~ret.r.ok /\ ret.r.error = "ValueError" /\ ret.r.date = NoDate
             /\ (ret.r.message = "Data inválida (use DDMMAAAA)") <=> (Len(ArgDigits) \notin {6, 8})

\* 31042020 is refused, and not with the message that names the format
DataErrorMessagesWitness ==
    /\ ret.stage = "returned"
    /\ arg = "31042020"
    /\ ~ret.r.ok
    /\ ret.r.message = "day is out of range for month"

(***************************************************************************)
(* parse_valor_decimal and formatar_decimal_ptbr                           *)
(* A Decimal quantized to 0.01 is its sign and its count of hundredths.    *)
(***************************************************************************)
NoDecimal == [ok |-> FALSE, sign |-> 0, cents |-> 0]

\* re.fullmatch(r"-?\d+(\.\d+)?", s)
MatchesDecimal(s) ==
    LET body == IF Take(s, 1) = "-" THEN Drop(s, 1) ELSE s
        dot  == Find(body, ".")
    IN  IF dot = -1 THEN AllDigits(body)
        ELSE AllDigits(Take(body, dot)) /\ AllDigits(Drop(body, dot + 1))

\* Decimal(s).quantize(Decimal("0.01"), rounding=ROUND_HALF_UP), s matching the
\* pattern: the third decimal digit decides, away from zero from 5 on
Quantize(s) ==
    LET neg   == Take(s, 1) = "-"
        body  == IF neg THEN Drop(s, 1) ELSE s
        dot   == Find(body, ".")
        int   == IF dot = -1 THEN body ELSE Take(body, dot)
        frac  == IF dot = -1 THEN "" ELSE Drop(body, dot + 1)
        two   == Take(frac \o "00", 2)
        third == IF Len(frac) >= 3 THEN DigitVal(SubSeq(frac, 3, 3)) ELSE 0
    IN  [ok |-> TRUE, sign |-> IF neg THEN 1 ELSE 0,
         cents |-> ToInt(int) * 100 + ToInt(two) + (IF third >= 5 THEN 1 ELSE 0)]

parse_valor_decimal(s) ==
    LET s1 == Strip(s)
        s2 == Replace(Replace(Replace(s1, "R$", ""), "r$", ""), " ", "")
        s3 == IF Contains(s2, ",") THEN Replace(Replace(s2, ".", ""), ",", ".") ELSE s2
    IN  IF s1 = "" THEN NoDecimal
        ELSE IF ~MatchesDecimal(s3) THEN NoDecimal
        ELSE Quantize(s3)

RECURSIVE Grouped(_)
\* the digits in groups of three, from the right, with ","
Grouped(digits) ==
    IF Len(digits) <= 3 THEN digits
    ELSE Grouped(Take(digits, Len(digits) - 3)) \o "," \o Drop(digits, Len(digits) - 3)

\* f"{d:,.2f}", e.g. 1,234.56
FormatGrouped(d) ==
    (IF d.sign = 1 THEN "-" ELSE "")
        \o Grouped(ToStr(d.cents \div 100))
        \o "." \o ToStr((d.cents % 100) \div 10) \o ToStr(d.cents % 10)

\* a variant of the return: the separators are not swapped
SwapSeparatorsNot(s) == s

\* s.replace(",", "X").replace(".", ",").replace("X", ".")
SwapSeparators(s) == Replace(Replace(Replace(s, ",", "X"), ".", ","), "X", ".")

formatar_decimal_ptbr(d) == SwapSeparators(FormatGrouped(d))

\* the value of a Decimal, in hundredths (-0.00 = 0.00)
Hundredths(d) == IF d.sign = 1 THEN 0 - d.cents ELSE d.cents

\* the strings a form may carry as an amount
ValorPrefixes == {"", "-", "R$ ", " r$", "R$ -"}
ValorIntegers == {"", "0", "7", "12", "999", "1000", "1234", "1.234", "12.345", "1234567", "1.234.567", "1 234", "12a"}
ValorDecimals == {"", ",5", ",50", ",56", ",564", ",565", ",995", ",999", ".5", ".565", ".999", ",", ",5,6", ",001"}

ValorInputs == {a \o b \o c : a \in ValorPrefixes, b \in ValorIntegers, c \in ValorDecimals}

InitValor ==
    /\ fn = "parse_valor_decimal"
    /\ arg \in ValorInputs
    /\ ret = [stage |-> "called"]
    /\ DocIdle /\ ReqIdle /\ StoreIdle

\* d = parse_valor_decimal(s)
ParseValor ==
    /\ fn = "parse_valor_decimal"
    /\ ret.stage = "called"
    /\ ret' = [stage |-> "parsed", d |-> parse_valor_decimal(arg)]
    /\ UNCHANGED <<fn, arg, docVars, reqVars, storeVars>>

\* t = formatar_decimal_ptbr(d), for an accepted s
FormatValor ==
    /\ fn = "parse_valor_decimal"
    /\ ret.stage = "parsed"
    /\ ret.d.ok
    /\ ret' = [stage |-> "formatted", d |-> ret.d, t |-> formatar_decimal_ptbr(ret.d)]
    /\ UNCHANGED <<fn, arg, docVars, reqVars, storeVars>>

\* parse_valor_decimal(t)
ReparseValor ==
    /\ fn = "parse_valor_decimal"
    /\ ret.stage = "formatted"
    /\ ret' = [stage |-> "reparsed", d |-> ret.d, t |-> ret.t, back |-> parse_valor_decimal(ret.t)]
    /\ UNCHANGED <<fn, arg, docVars, reqVars, storeVars>>

NextValor == ParseValor \/ FormatValor \/ ReparseValor

SpecValor == InitValor /\ [][NextValor]_vars

\* C9: for every accepted s, parse_valor_decimal(formatar_decimal_ptbr(
\* parse_valor_decimal(s))) is accepted and equals parse_valor_decimal(s); so
\* "R$ -1.234,565" parses to -1234.57, is written "-1.234,57" and parses back.
C9_RoundTrip ==
    ret.stage = "reparsed" =>
        /\ ret.back.ok
        /\ Hundredths(ret.back) = Hundredths(ret.d)
        /\ ret.back.cents = ret.d.cents
        /\ arg = "R$ -1.234,565" => ret.t = "-1.234,57" /\ Hundredths(ret.d) = 0 - 123457

\* C9's case: a negative amount of 1000 or more has made the round trip
C9_Witness ==
    /\ ret.stage = "reparsed"
    /\ arg = "R$ -1.234,565"
    /\ ret.d.sign = 1 /\ ret.d.cents = 123457
    /\ ret.t = "-1.234,57"
    /\ ret.back = ret.d

(***************************************************************************)
(* numero_por_extenso                                                      *)
(***************************************************************************)
UNIDADES == <<"zero", "um", "dois", "três", "quatro", "cinco", "seis", "sete", "oito", "nove">>
DEZ_A_DEZENOVE == <<"dez", "onze", "doze", "treze", "quatorze", "quinze", "dezesseis", "dezessete", "dezoito", "dezenove">>
DEZENAS == <<"", "", "vinte", "trinta", "quarenta", "cinquenta", "sessenta", "setenta", "oitenta", "noventa">>
CENTENAS == <<"", "cento", "duzentos", "trezentos", "quatrocentos", "quinhentos", "seiscentos", "setecentos", "oitocentos", "novecentos">>

\* a variant of the conjunction: " e " up to a remainder of 100
ConjUpTo100(rest) == IF rest <= 100 THEN " e " ELSE " "

\* conj = " e " if rest < 100 else " "
Conj(rest) == IF rest < 100 THEN " e " ELSE " "

RECURSIVE numero_por_extenso(_)
\* the Python lists are indexed from 0, the tuples from 1
numero_por_extenso(n) ==
    IF n < 0 THEN "menos " \o numero_por_extenso(0 - n)
    ELSE IF n < 10 THEN UNIDADES[n + 1]
    ELSE IF n < 20 THEN DEZ_A_DEZENOVE[n - 10 + 1]
    ELSE IF n < 100 THEN
        LET dez == n \div 10
            uni == n % 10
        IN  IF uni = 0 THEN DEZENAS[dez + 1]
            ELSE DEZENAS[dez + 1] \o " e " \o UNIDADES[uni + 1]
    ELSE IF n = 100 THEN "cem"
    ELSE IF n < 1000 THEN
        LET cen  == n \div 100
            rest == n % 100
        IN  IF rest = 0 THEN (IF cen = 1 THEN "cem" ELSE CENTENAS[cen + 1])
            ELSE CENTENAS[cen + 1] \o " e " \o numero_por_extenso(rest)
    ELSE IF n < 1000000 THEN
        LET mil     == n \div 1000
            rest    == n % 1000
            mil_txt == IF mil = 1 THEN "um mil" ELSE numero_por_extenso(mil) \o " mil"
        IN  IF rest = 0 THEN mil_txt
            ELSE mil_txt \o Conj(rest) \o numero_por_extenso(rest)
    ELSE IF n < 1000000000 THEN
        LET milhao     == n \div 1000000
            rest       == n % 1000000
            milhao_txt == IF milhao = 1 THEN "um milhão" ELSE numero_por_extenso(milhao) \o " milhões"
        IN  IF rest = 0 THEN milhao_txt
            ELSE milhao_txt \o Conj(rest) \o numero_por_extenso(rest)
    ELSE
        LET bilhao     == n \div 1000000000
            rest       == n % 1000000000
            bilhao_txt == IF bilhao = 1 THEN "um bilhão" ELSE numero_por_extenso(bilhao) \o " bilhões"
        IN  IF rest = 0 THEN bilhao_txt
            ELSE bilhao_txt \o Conj(rest) \o numero_por_extenso(rest)

\* the scales, the multiples and the remainders of the numbers called with
Scales     == {1000, 1000000, 1000000000}
Multiples  == {1, 2, 21, 100, 999}
Remainders == {0, 1, 19, 99, 100, 101, 999, 1000, 1001, 1100, 99999, 100000, 2000001}

ExtensoInputs ==
    (0 - 3)..130
    \cup {q * sc + r : q \in {1, 2}, sc \in Scales, r \in Remainders}
    \cup {q * sc + r : q \in Multiples, sc \in {1000, 1000000}, r \in {x \in Remainders : x < 1000}}

InitExtenso ==
    /\ fn = "numero_por_extenso"
    /\ arg \in ExtensoInputs
    /\ ret = [stage |-> "called"]
    /\ DocIdle /\ ReqIdle /\ StoreIdle

CallNumeroPorExtenso ==
    /\ fn = "numero_por_extenso"
    /\ ret.stage = "called"
    /\ ret' = [stage |-> "returned", r |-> numero_por_extenso(arg)]
    /\ UNCHANGED <<fn, arg, docVars, reqVars, storeVars>>

NextExtenso == CallNumeroPorExtenso

SpecExtenso == InitExtenso /\ [][NextExtenso]_vars

\* the largest scale of n >= 1000, and its phrase for the multiple q
ScaleOf(n) == IF n >= 1000000000 THEN 1000000000 ELSE IF n >= 1000000 THEN 1000000 ELSE 1000
ScalePhrase(q, sc) ==
    IF sc = 1000 THEN (IF q = 1 THEN "um mil" ELSE numero_por_extenso(q) \o " mil")
    ELSE IF sc = 1000000 THEN (IF q = 1 THEN "um milhão" ELSE numero_por_extenso(q) \o " milhões")
    ELSE (IF q = 1 THEN "um bilhão" ELSE numero_por_extenso(q) \o " bilhões")

\* the results the specification lists
ExtensoExamples ==
    {<<100, "cem">>, <<101, "cento e um">>, <<1000, "um mil">>, <<1001, "um mil e um">>,
     <<1100, "um mil cem">>, <<1000000, "um milhão">>, <<2000000, "dois milhões">>}

\* C10: for n >= 1000 with largest scale sc, multiple q and remainder r, the
\* result is the scale phrase, then " e " and the words of r when 0 < r < 100, a
\* single space and the words of r when r >= 100, nothing when r = 0; and the
\* listed results are as listed.
C10_ConjunctionBoundary ==
    ret.stage = "returned" =>
        /\ arg >= 1000 =>
              LET sc == ScaleOf(arg)
                  q  == arg \div sc
                  r  == arg % sc
                  w  == numero_por_extenso(r)
              IN  ret.r = ScalePhrase(q, sc)
                            \o (IF r = 0 THEN "" ELSE IF r < 100 THEN " e " \o w ELSE " " \o w)
        /\ \A e \in ExtensoExamples : arg = e[1] => ret.r = e[2]

\* C10's case: a remainder of exactly 100 is joined with a space
C10_Witness ==
    /\ ret.stage = "returned"
    /\ arg = 1100
    /\ ret.r = "um mil cem"

(***************************************************************************)
(* valor_por_extenso_reais                                                 *)
(* The Decimal passed in is its literal (sign, digits, "." and digits); it *)
(* is quantized to 0.01 on entry.                                          *)
(***************************************************************************)
\* a variant of the reais phrase: "zero reais" whatever the cents
ReaisTxtZeroPlural(reais, centavos) ==
    IF reais = 0 THEN "zero reais"
    ELSE IF reais = 1 THEN "um real"
    ELSE numero_por_extenso(reais) \o " reais"

\* lines 180-185: reais_txt
ReaisTxt(reais, centavos) ==
    IF reais = 0 THEN (IF centavos = 0 THEN "zero real" ELSE "zero reais")
    ELSE IF reais = 1 THEN "um real"
    ELSE numero_por_extenso(reais) \o " reais"

\* lines 190-193: cent_txt
CentTxt(centavos) ==
    IF centavos = 1 THEN "um centavo" ELSE numero_por_extenso(centavos) \o " centavos"

\* lines 177-195, for d quantized and not below zero: reais = int(d // 1),
\* centavos = int((d - Decimal(reais)) * 100)
ReaisPorExtenso(d) ==
    LET reais    == d.cents \div 100
        centavos == d.cents - reais * 100
    IN  IF centavos = 0 THEN ReaisTxt(reais, centavos)
        ELSE ReaisTxt(reais, centavos) \o " e " \o CentTxt(centavos)

\* d < 0 is false of -0.00; the recursive call on -d quantizes again, which
\* changes nothing, and takes the other branch
valor_por_extenso_reais(lit) ==
    LET d == Quantize(lit)
    IN  IF d.sign = 1 /\ d.cents > 0
        THEN "menos " \o ReaisPorExtenso([d EXCEPT !.sign = 0])
        ELSE ReaisPorExtenso(d)

\* the Decimals called with: sign, integer part, decimals
ReaisSigns    == {"", "-"}
ReaisIntegers == {"0", "1", "2", "21", "100", "101", "999", "1000", "1001", "1100", "1000000", "2000001"}
ReaisDecimals == {"", ".0", ".00", ".01", ".02", ".1", ".10", ".5", ".50", ".99", ".004", ".005", ".994", ".995"}

ReaisInputs == {a \o b \o c : a \in ReaisSigns, b \in ReaisIntegers, c \in ReaisDecimals}

InitReais ==
    /\ fn = "valor_por_extenso_reais"
    /\ arg \in ReaisInputs
    /\ ret = [stage |-> "called"]
    /\ DocIdle /\ ReqIdle /\ StoreIdle

CallValorPorExtensoReais ==
    /\ fn = "valor_por_extenso_reais"
    /\ ret.stage = "called"
    /\ ret' = [stage |-> "returned", r |-> valor_por_extenso_reais(arg)]
    /\ UNCHANGED <<fn, arg, docVars, reqVars, storeVars>>

NextReais == CallValorPorExtensoReais

SpecReais == InitReais /\ [][NextReais]_vars

\* the amount called with, to 2 decimals: its integer part and its cents
ArgNonNegative == Take(arg, 1) # "-"
ArgReais       == Quantize(arg).cents \div 100
ArgCentavos    == Quantize(arg).cents % 100

\* the results the specification lists
ReaisExamples ==
    {<<"1.00", "um real">>, <<"0.00", "zero real">>, <<"2.50", "dois reais e cinquenta centavos">>}

\* C11: for a non-negative amount whose 2-decimal value has integer part R and
\* cents C, the result is the reais phrase alone when C = 0, else the reais
\* phrase, " e " and the cents phrase; the reais phrase is "zero real" for R = 0
\* and C = 0, "zero reais" for R = 0 and C > 0, "um real" for R = 1, else
\* numero_por_extenso(R) and " reais"; the cents phrase is "um centavo" for
\* C = 1, else numero_por_extenso(C) and " centavos"; and the listed results
\* are as listed.
C11_ReaisAndCentavosPhrases ==
    ret.stage = "returned" =>
        /\ ArgNonNegative =>
              LET R == ArgReais
                  C == ArgCentavos
                  reaisPhrase == IF R = 0 /\ C = 0 THEN "zero real"
                                 ELSE IF R = 0 THEN "zero reais"
                                 ELSE IF R = 1 THEN "um real"
                                 ELSE numero_por_extenso(R) \o " reais"
                  centsPhrase == IF C = 1 THEN "um centavo"
                                 ELSE numero_por_extenso(C) \o " centavos"
              IN  /\ C \in 0..99
                  /\ ret.r = IF C = 0 THEN reaisPhrase ELSE reaisPhrase \o " e " \o centsPhrase
        /\ \A e \in ReaisExamples : arg = e[1] => ret.r = e[2]

\* C11's case: 0.00 is written "zero real", with neither plural nor cents
C11_Witness ==
    /\ ret.stage = "returned"
    /\ arg = "0.00"
    /\ ArgReais = 0 /\ ArgCentavos = 0
    /\ ret.r = "zero real"

(***************************************************************************)
(* The propostas table                                                     *)
(***************************************************************************)
RETENCAO_DIAS == 10

\* INSERT INTO propostas (...) VALUES (..., NOW()) RETURNING id
salvar_proposta(rows, id, cliente, cpf, modelo, franquia, valor, pdf, t) ==
    rows \cup {[id |-> id, cliente |-> cliente, cpf |-> cpf, modelo |-> modelo,
                franquia |-> franquia, valor |-> valor, pdf |-> pdf, created_at |-> t]}

\* DELETE FROM propostas WHERE id = %s
deletar_proposta(rows, pid) == {r \in rows : r.id # pid}

\* a variant of the WHERE clause: created_at <= NOW() - INTERVAL
ExpiredFromThreshold(r, t) == r.created_at <= t - RETENCAO_DIAS

\* WHERE created_at < NOW() - INTERVAL 'RETENCAO_DIAS days', NOW() being t
Expired(r, t) == r.created_at < t - RETENCAO_DIAS

(***************************************************************************)
(* proposta(): one POST to /proposta                                       *)
(***************************************************************************)
NoResponse == [kind |-> "none", body |-> "", error |-> ""]

ErrorPage(e) == [kind |-> "error", body |-> "", error |-> e]

\* parse_int: the digits of s, or ValueError
parse_int(s) ==
    IF OnlyDigits(s) = "" THEN [ok |-> FALSE, n |-> 0] ELSE [ok |-> TRUE, n |-> ToInt(OnlyDigits(s))]

\* a variant of the check: the image is optional
ImagemMissingNever(f) == FALSE

\* not imagem_file or not imagem_file.filename
ImagemMissing(f) == f.imagem = Nil \/ f.imagem = ""

\* lines 496-509: the first check that fails, in the order of the code, or ""
FormError(f) ==
    IF ~parse_int(f.franquia).ok THEN "Número inválido"
    ELSE IF ~parse_valor_decimal(f.valor).ok THEN "Valor inválido"
    ELSE IF Strip(f.cliente) = "" \/ Strip(f.cpf) = "" \/ Strip(f.modelo) = ""
    THEN "Preencha cliente, CPF/CNPJ e modelo."
    ELSE IF ImagemMissing(f) THEN "Anexe a imagem do equipamento."
    ELSE ""

\* the forms a request may carry; a field left out reads as ""
Forms ==
    [cliente : {"", " ", " Ana ", "Bia"}, cpf : {"", "123.456.789-09"}, modelo : {"", "X1"},
     franquia : {"", "500 cópias"}, valor : {"", "R$ 1.234,50", "99"},
     imagem : {Nil, "", "foto.png", "foto.jpg"}]

InitProposta ==
    /\ form \in Forms
    /\ rpc = "parse"
    /\ pdf_bytes = Nil
    /\ response = NoResponse
    /\ propostas = {} /\ nextId = 1 /\ now = 0 /\ sweep = <<>>
    /\ DocIdle /\ FnIdle

\* lines 496-512: the fields are read and checked
PropostaParse ==
    /\ rpc = "parse"
    /\ IF FormError(form) = ""
       THEN rpc' = "generate" /\ response' = response
       ELSE rpc' = "responded" /\ response' = ErrorPage(FormError(form))
    /\ UNCHANGED <<form, pdf_bytes, docVars, storeVars, fnVars>>

\* lines 514-535: the template is filled, saved and converted by soffice, which
\* may fail (RuntimeError)
PropostaGenerate ==
    /\ rpc = "generate"
    /\ \E converted \in BOOLEAN :
          IF converted
          THEN /\ pdf_bytes' = "%PDF Proposta (" \o Strip(form.cliente) \o ")"
               /\ rpc' = "ensure_schema"
               /\ response' = response
          ELSE /\ pdf_bytes' = pdf_bytes
               /\ rpc' = "responded"
               /\ response' = ErrorPage("PDF não foi gerado pelo LibreOffice.")
    /\ UNCHANGED <<form, docVars, storeVars, fnVars>>

\* a variant of the handler: no try around the store, its failure reaches the
\* outer except
StoreFailureRaises(e) == [rpc |-> "responded", response |-> ErrorPage(e)]

\* except Exception: pass
StoreFailure(e) == [rpc |-> "send_file", response |-> NoResponse]

\* line 538: ensure_schema(), which fails when the store cannot be reached
PropostaEnsureSchema ==
    /\ rpc = "ensure_schema"
    /\ \E reached \in BOOLEAN :
          IF reached
          THEN rpc' = "salvar_proposta" /\ response' = response
          ELSE /\ rpc' = StoreFailure("DATABASE_URL não encontrada").rpc
               /\ response' = StoreFailure("DATABASE_URL não encontrada").response
    /\ UNCHANGED <<form, pdf_bytes, docVars, storeVars, fnVars>>

\* line 539: salvar_proposta(...), which fails when the store cannot be reached
PropostaSalvar ==
    /\ rpc = "salvar_proposta"
    /\ \E reached \in BOOLEAN :
          IF reached
          THEN /\ propostas' = salvar_proposta(propostas, nextId, Strip(form.cliente),
                                  OnlyDigits(Strip(form.cpf)), Strip(form.modelo),
                                  parse_int(form.franquia).n,
                                  Hundredths(parse_valor_decimal(form.valor)), pdf_bytes, now)
               /\ nextId' = nextId + 1
               /\ rpc' = "send_file" /\ response' = response
          ELSE /\ rpc' = StoreFailure("connection refused").rpc
               /\ response' = StoreFailure("connection refused").response
               /\ UNCHANGED <<propostas, nextId>>
    /\ UNCHANGED <<form, pdf_bytes, now, sweep, docVars, fnVars>>

\* lines 543-548: send_file(io.BytesIO(pdf_bytes), ...)
PropostaSendFile ==
    /\ rpc = "send_file"
    /\ response' = [kind |-> "pdf", body |-> pdf_bytes, error |-> ""]
    /\ rpc' = "responded"
    /\ UNCHANGED <<form, pdf_bytes, docVars, storeVars, fnVars>>

NextProposta ==
    PropostaParse \/ PropostaGenerate \/ PropostaEnsureSchema \/ PropostaSalvar \/ PropostaSendFile

SpecProposta == InitProposta /\ [][NextProposta]_vars

\* C5: a failure of ensure_schema or salvar_proposta never fails the request:
\* once the PDF has been converted, the response is that PDF; and a row is in
\* the store only when the conversion has succeeded, holding that PDF (a
\* request answered with an error has inserted no row).
C5_StoreFailureDoesNotFailRequest ==
    /\ (rpc = "responded" /\ pdf_bytes # Nil) =>
          response = [kind |-> "pdf", body |-> pdf_bytes, error |-> ""]
    /\ \A r \in propostas : pdf_bytes # Nil /\ r.pdf = pdf_bytes
    /\ (rpc = "responded" /\ response.kind = "error") => propostas = {}

\* C5's case: the store failed after a successful conversion, the PDF was
\* returned and no row was written
C5_Witness ==
    /\ rpc = "responded"
    /\ pdf_bytes = "%PDF Proposta (Ana)"
    /\ propostas = {}
    /\ response.kind = "pdf" /\ response.body = pdf_bytes

\* the required fields of the form are all there and valid
FieldsValid ==
    /\ parse_int(form.franquia).ok /\ parse_valor_decimal(form.valor).ok
    /\ Strip(form.cliente) # "" /\ Strip(form.cpf) # "" /\ Strip(form.modelo) # ""

NoImage == form.imagem = Nil \/ form.imagem = ""

MaxRows == 2
MaxTicks == 3
Sweepers == {1, 2}

\* the clock advances by half the retention window
TickDays == RETENCAO_DIAS \div 2

IdleSweep == [st |-> "idle", t |-> 0, targets |-> {}, deleted |-> {}]

InitStore ==
    /\ propostas = {}
    /\ nextId = 1
    /\ now = 0
    /\ sweep = [s \in Sweepers |-> IdleSweep]
    /\ DocIdle /\ ReqIdle /\ FnIdle

\* time passes
Tick ==
    /\ now < MaxTicks * TickDays
    /\ now' = now + TickDays
    /\ UNCHANGED <<propostas, nextId, sweep, docVars, reqVars, fnVars>>

\* salvar_proposta, as proposta() calls it after a conversion
Insert ==
    /\ nextId <= MaxRows
    /\ propostas' = salvar_proposta(propostas, nextId, "Ana", "12345678909", "X1", 500, 123450, "%PDF", now)
    /\ nextId' = nextId + 1
    /\ UNCHANGED <<now, sweep, docVars, reqVars, fnVars>>

\* proposta_delete(pid) of a stored row
Delete(pid) ==
    /\ \E r \in propostas : r.id = pid
    /\ propostas' = deletar_proposta(propostas, pid)
    /\ UNCHANGED <<nextId, now, sweep, docVars, reqVars, fnVars>>

\* recentes(): ensure_schema() succeeded and limpar_propostas_expiradas() starts
\* its DELETE: NOW() is read and the expired rows are found
SweepStart(s) ==
    /\ sweep[s].st \in {"idle", "swept"}
    /\ sweep' = [sweep EXCEPT ![s] = [st |-> "deleting", t |-> now,
                                      targets |-> {r \in propostas : Expired(r, now)},
                                      deleted |-> {}]]
    /\ UNCHANGED <<propostas, nextId, now, docVars, reqVars, fnVars>>

\* the DELETE completes: the rows found that are still there are removed
SweepDelete(s) ==
    /\ sweep[s].st = "deleting"
    /\ propostas' = propostas \ sweep[s].targets
    /\ sweep' = [sweep EXCEPT ![s] = [st |-> "swept", t |-> @.t, targets |-> {},
                                      deleted |-> @.targets \cap propostas]]
    /\ UNCHANGED <<nextId, now, docVars, reqVars, fnVars>>

NextStore ==
    \/ Tick
    \/ Insert
    \/ \E pid \in 1..MaxRows : Delete(pid)
    \/ \E s \in Sweepers : SweepStart(s)
    \/ \E s \in Sweepers : SweepDelete(s)

SpecStore == InitStore /\ [][NextStore]_vars

\* C6: a sweep deletes only rows whose age exceeds RETENCAO_DIAS; once a sweep
\* has completed, no row whose age exceeded RETENCAO_DIAS when it started is
\* left, whatever inserts, deletes and other sweeps ran meanwhile; a row is
\* deleted by one sweep only, and a sweep that started no later than a completed
\* one finds none of its rows left: it leaves the rows the first has left.
C6_SweepDeletesExactlyExpired ==
    /\ \A s \in Sweepers :
          /\ \A r \in sweep[s].targets \cup sweep[s].deleted :
                sweep[s].t - r.created_at > RETENCAO_DIAS /\ now - r.created_at > RETENCAO_DIAS
          /\ sweep[s].st = "swept" =>
                \A r \in propostas : ~(sweep[s].t - r.created_at > RETENCAO_DIAS)
    /\ \A s1 \in Sweepers : \A s2 \in Sweepers :
          /\ s1 # s2 => sweep[s1].deleted \cap sweep[s2].deleted = {}
          /\ (sweep[s1].st = "swept" /\ sweep[s2].st = "deleting" /\ sweep[s2].t <= sweep[s1].t)
                => sweep[s2].targets \cap propostas = {}
    /\ \A r \in propostas : r.created_at <= now

\* C6's case: two sweeps ran at the same time of the clock over an expired row
\* and a row exactly RETENCAO_DIAS old: one deleted the first, the other found
\* nothing left to delete, the second row is kept
C6_Witness ==
    /\ sweep[1].st = "swept" /\ sweep[2].st = "swept"
    /\ sweep[1].t = sweep[2].t
    /\ Cardinality(sweep[1].deleted) = 1 /\ sweep[2].deleted = {}
    /\ \E r \in propostas : sweep[1].t - r.created_at = RETENCAO_DIAS

(***************************************************************************)
(* SpecLoop: the while loop of _replace_in_paragraph, statement by         *)
(* statement, on short paragraphs and the mappings of SpecParagraph.  One  *)
(* pass of the loop body is two steps: the placeholder is located (pc =    *)
(* "located"), then the runs are rewritten (pc = "written").  The thread   *)
(* that runs the function keeps running: a step that can be taken is       *)
(* taken.                                                                  *)
(***************************************************************************)
\* lines 211-244: placeholder in full_text; start, end, start_run, end_run,
\* prefix and suffix are computed
LocatePlaceholder ==
    /\ pc \in {"while", "written"}
    /\ LoopAgain(doc[pIdx], replacements[kIdx].ph)
    /\ LET l == Locate(doc[pIdx], replacements[kIdx].ph)
       IN  /\ loc' = l
           /\ IF l.start_run = NoRun
              THEN \* if start_run is None: break
                   IF kIdx < Len(replacements)
                   THEN kIdx' = kIdx + 1 /\ pc' = "while" /\ UNCHANGED <<doc, images, pIdx>>
                   ELSE kIdx' = kIdx /\ Return
              ELSE pc' = "located" /\ UNCHANGED <<doc, images, pIdx, kIdx>>
    /\ UNCHANGED <<template, context, replacements, caller, last_subst>>
    /\ UNCHANGED <<reqVars, storeVars, fnVars>>

\* lines 246-248: the runs are rewritten, and the loop goes back to its head
RewriteRuns ==
    /\ pc = "located"
    /\ doc' = [doc EXCEPT ![pIdx] = WriteRuns(@, loc, replacements[kIdx].value)]
    /\ last_subst' = kIdx
    /\ pc' = "written"
    /\ UNCHANGED <<template, images, context, replacements, caller, pIdx, kIdx, loc>>
    /\ UNCHANGED <<reqVars, storeVars, fnVars>>

MaxLoopRuns == 2

\* the texts a run may hold, and the paragraphs of up to MaxLoopRuns runs
LoopRunTexts == {"", "Hello {{", "NAME", "}}!", "{{NAME}}"}

LoopParagraphs == UNION {[1..n -> LoopRunTexts] : n \in 0..MaxLoopRuns}

InitLoop ==
    /\ \E p \in LoopParagraphs : template = <<p>> /\ doc = <<p>>
    /\ images = <<0>>
    /\ context = <<>>
    /\ replacements \in Mappings
    /\ caller = "direct"
    /\ pIdx = 1 /\ kIdx = 0
    /\ pc = "call"
    /\ loc = NoLoc
    /\ last_subst = 0
    /\ ReqIdle /\ StoreIdle /\ FnIdle

NextLoop == Enter \/ LocatePlaceholder \/ RewriteRuns \/ Break

SpecLoop == InitLoop /\ [][NextLoop]_vars /\ WF_vars(NextLoop)

\* C12: _replace_in_paragraph terminates for every paragraph and every mapping,
\* a value that contains its own placeholder included: the call returns.
C12_Terminates == <>(pc = "returned")

\* What the code does, beside C12: a pass of the loop over a value that holds
\* its own placeholder leaves the placeholder in the text, so the test at the
\* head of the loop succeeds again.
LoopKeepsPlaceholder ==
    (pc = "written" /\ Contains(replacements[kIdx].value, replacements[kIdx].ph))
        => LoopAgain(doc[pIdx], replacements[kIdx].ph)

====
